---- MODULE Spec2Model ----
(***************************************************************************)
(* Model of the ENI NodeManager (pkg/aws/eni/node_manager.go): the         *)
(* registry of nodes behind a reader/writer lock, the per-node locks, the  *)
(* reconciliation pass Resync and the two coalescing triggers.             *)
(***************************************************************************)
EXTENDS Integers, Sequences, FiniteSets, TLC

(* ---------------------------- bounds ---------------------------------- *)
NumWorkers == 2      \* concurrent event workers calling the public API
NumIngest == 1       \* event workers running beside the two triggers
MaxNodes == 3        \* Node objects ever allocated (&Node{...})
MaxCalls == 3        \* API calls the event workers issue in one run
MaxNeeded == 2       \* largest stats.neededIPs a recompute yields
MaxIPs == 1          \* largest stats.availableIPs a recompute yields
MaxIfaces == 1       \* largest stats.remainingInterfaces
MaxBatches == 2      \* batches each trigger runs
MaxFires == 2        \* direct TriggerWithReason calls of the environment
MaxStrayFires == 1   \* the same, beside the event worker and the resync pass
MinInterval == 1     \* trigger.Parameters.MinInterval, in seconds

Names == {"a", "b", "c"}         \* CiliumNode names
Churn == {"a", "b"}              \* the names the event workers update and delete
Contended == {"a"}               \* the name all goroutines work on at once
Resources == {"r1", "r2"}        \* CiliumNode payloads delivered by Update

Workers == 1 .. NumWorkers       \* event workers
Ingest == 1 .. NumIngest         \* event workers beside the trigger goroutines
RS == NumWorkers + 1             \* goroutine of the resync trigger
DR == NumWorkers + 2             \* goroutine of the deficit-resolver trigger
Procs == 1 .. (NumWorkers + 2)
NodeIds == 1 .. MaxNodes

None == 0                        \* nil *Node / no lock holder
NoResource == "nil"              \* Node.resource before the first ingestion

VARIABLES
  nodes,        \* NodeManager.nodes: name -> Node object (None: no entry)
  nextId,       \* next Node object to allocate
  rwWriter,     \* NodeManager.mutex: the worker holding it for writing
  rwReaders,    \* NodeManager.mutex: the workers holding it for reading
  rwWaiting,    \* NodeManager.mutex: workers blocked in Lock()
  nodeName,     \* Node.name per object
  nodeMutex,    \* Node.mutex per object: holder, or None
  nodeResource, \* Node.resource per object
  stats,        \* Node.stats per object
  resyncNeeded, \* Node.resyncNeeded per object
  pc,           \* position of every worker in the operation it runs
  arg,          \* the operation's argument: [name, res]
  cur,          \* the *Node the operation works on
  ret,          \* what each worker's last finished operation returned
  calls,        \* API calls issued so far
  list,         \* GetNodesByNeededAddresses: the slice being built and sorted
  si, sj,       \* sort.Slice: the insertion sort's indices i and j
  key,          \* sort.Slice: the left operand of the comparison under way
  stable,       \* history: no needed-address count changed during the call
  idx,          \* Resync: position in the range over the snapshot
  totals,       \* Resync: totalUsed, totalAvailable, ..., nodesAtCapacity
  gauges,       \* metricsAPI: the values last set
  pass,         \* history of the pass: visited, pushed, failed, emits, refreshed
  pending,      \* deficitResolver: reasons folded since the last batch
  resyncPending,\* resyncTrigger: triggered since the last batch
  batch,        \* deficitResolver: the reasons handed to TriggerFunc
  bpos,         \* deficitResolver: position in the range over reasons
  since,        \* per trigger: seconds since its last batch, up to MinInterval
  batches,      \* per trigger: batches run so far
  fires,        \* direct TriggerWithReason calls so far
  dlog,         \* history of the batch: fired, resolved, warned, errors
  netKeys,      \* history: key set implied by the calls in registry-lock order
  settled,      \* history: names created by a returned Update, not deleted since
  mngr          \* what NewNodeManager returned, and the triggers it made

registryVars == <<nodes, nextId>>
rwVars == <<rwWriter, rwReaders, rwWaiting>>
nodeVars == <<nodeName, nodeMutex, nodeResource, stats, resyncNeeded>>
procVars == <<pc, arg, cur, ret, calls>>
sortVars == <<list, si, sj, key, stable>>
passVars == <<idx, totals, gauges, pass>>
trigVars == <<pending, resyncPending, batch, bpos, since, batches, fires, dlog>>
histVars == <<netKeys, settled, mngr>>

vars == <<registryVars, rwVars, nodeVars, procVars, sortVars, passVars,
          trigVars, histVars>>

(* ------------------------- plain data --------------------------------- *)
ZeroStats == [availableIPs |-> 0, usedIPs |-> 0, neededIPs |-> 0,
              remainingInterfaces |-> 0]
NoArg == [name |-> "", res |-> NoResource]
NoRet == [op |-> "none", changed |-> FALSE, created |-> FALSE,
          first |-> FALSE, names |-> {}, must |-> {}]
ZeroTotals == [used |-> 0, available |-> 0, needed |-> 0, interfaces |-> 0,
               atCapacity |-> 0]
NoPass == [visited |-> <<>>, pushed |-> <<>>, failed |-> FALSE, emits |-> 0,
           refreshed |-> FALSE, enqueued |-> {}, stale |-> {}]
NoCount == [nm \in Names |-> 0]
NoLog == [folding |-> NoCount, fired |-> NoCount, resolved |-> NoCount,
          warned |-> {}, errors |-> {}]
Triggers == {"deficit", "resync"}

\* the keys of the registry map
Keys(m) == {nm \in Names : m[nm] # None}

(* ------------------ NodeManager.mutex (lock.RWMutex) ------------------- *)
\* Lock() returns once no reader and no writer holds the mutex
CanLock == rwWriter = None /\ rwReaders = {}
\* RLock() returns once no writer holds the mutex or waits for it
CanRLock == rwWriter = None /\ rwWaiting = {}

\* an Unlock() that is skipped
UnlockSkipped(w) == w
\* n.mutex.Unlock(): the new holder of the write lock
Unlock(w) == None

\* an RUnlock() that is skipped
RUnlockSkipped(readers, w) == readers
\* n.mutex.RUnlock()
RUnlock(readers, w) == readers \ {w}

(* ----------------------- registry map updates -------------------------- *)
\* an Update that creates the Node and does not store it
RegistryInsertLost(m, nm, id) == m
\* n.nodes[node.name] = node
RegistryInsert(m, nm, id) == [m EXCEPT ![nm] = id]
\* a Delete that leaves the entry in the map
RegistryDeleteKept(m, nm) == m
\* delete(n.nodes, nodeName)
RegistryDelete(m, nm) == [m EXCEPT ![nm] = None]
\* a lookup that never finds the entry
RegistryLookupMiss(m, nm) == None
\* node, ok := n.nodes[resource.Name]
RegistryLookup(m, nm) == m[nm]

(* -------------------------- NewNodeManager ----------------------------- *)
\* nodes: nodeMap{}
EmptyNodeMap == [nm \in Names |-> None]

\* before NewNodeManager is called
NoManager == [called |-> FALSE, manager |-> FALSE, err |-> "", made |-> {},
              deficitResolver |-> FALSE, resyncTrigger |-> FALSE]

\* a constructor that does not look at the error of the second NewTrigger
NewNodeManagerUnchecked(okDeficit, okResync) ==
  IF ~okDeficit
  THEN [NoManager EXCEPT !.called = TRUE,
          !.err = "unable to initialize deficit resolver trigger"]
  ELSE [NoManager EXCEPT !.called = TRUE, !.manager = TRUE,
          !.made = IF okResync THEN {"deficit", "resync"} ELSE {"deficit"},
          !.deficitResolver = TRUE, !.resyncTrigger = okResync]

\* what NewNodeManager returns when the two trigger.NewTrigger calls succeed
\* or fail: the manager (or nil), the error, the triggers made and the
\* manager's two trigger fields
NewNodeManagerReturns(okDeficit, okResync) ==
  IF ~okDeficit
  THEN [NoManager EXCEPT !.called = TRUE,
          !.err = "unable to initialize deficit resolver trigger"]
  ELSE IF ~okResync
  THEN [NoManager EXCEPT !.called = TRUE, !.made = {"deficit"},
          !.err = "unable to initialize resync trigger"]
  ELSE [NoManager EXCEPT !.called = TRUE, !.manager = TRUE,
          !.made = {"deficit", "resync"},
          !.deficitResolver = TRUE, !.resyncTrigger = TRUE]

(* ------------------------------ Init ----------------------------------- *)
Init ==
  /\ nodes = [nm \in Names |-> None]
  /\ nextId = 1
  /\ rwWriter = None
  /\ rwReaders = {}
  /\ rwWaiting = {}
  /\ nodeName = [id \in NodeIds |-> ""]
  /\ nodeMutex = [id \in NodeIds |-> None]
  /\ nodeResource = [id \in NodeIds |-> NoResource]
  /\ stats = [id \in NodeIds |-> ZeroStats]
  /\ resyncNeeded = [id \in NodeIds |-> FALSE]
  /\ pc = [w \in Procs |-> "idle"]
  /\ arg = [w \in Procs |-> NoArg]
  /\ cur = [w \in Procs |-> None]
  /\ ret = [w \in Procs |-> NoRet]
  /\ calls = 0
  /\ list = [w \in Procs |-> <<>>]
  /\ si = [w \in Procs |-> 0]
  /\ sj = [w \in Procs |-> 0]
  /\ key = [w \in Procs |-> 0]
  /\ stable = [w \in Procs |-> TRUE]
  /\ idx = 0
  /\ totals = ZeroTotals
  /\ gauges = ZeroTotals
  /\ pass = NoPass
  /\ pending = {}
  /\ resyncPending = FALSE
  /\ batch = <<>>
  /\ bpos = 0
  /\ since = [t \in Triggers |-> MinInterval]
  /\ batches = [t \in Triggers |-> 0]
  /\ fires = 0
  /\ dlog = NoLog
  /\ netKeys = {}
  /\ settled = {}
  /\ mngr = NewNodeManagerReturns(TRUE, TRUE)

\* the state before NewNodeManager is called
InitNew ==
  /\ nodes = EmptyNodeMap
  /\ nextId = 1
  /\ rwWriter = None
  /\ rwReaders = {}
  /\ rwWaiting = {}
  /\ nodeName = [id \in NodeIds |-> ""]
  /\ nodeMutex = [id \in NodeIds |-> None]
  /\ nodeResource = [id \in NodeIds |-> NoResource]
  /\ stats = [id \in NodeIds |-> ZeroStats]
  /\ resyncNeeded = [id \in NodeIds |-> FALSE]
  /\ pc = [w \in Procs |-> "idle"]
  /\ arg = [w \in Procs |-> NoArg]
  /\ cur = [w \in Procs |-> None]
  /\ ret = [w \in Procs |-> NoRet]
  /\ calls = 0
  /\ list = [w \in Procs |-> <<>>]
  /\ si = [w \in Procs |-> 0]
  /\ sj = [w \in Procs |-> 0]
  /\ key = [w \in Procs |-> 0]
  /\ stable = [w \in Procs |-> TRUE]
  /\ idx = 0
  /\ totals = ZeroTotals
  /\ gauges = ZeroTotals
  /\ pass = NoPass
  /\ pending = {}
  /\ resyncPending = FALSE
  /\ batch = <<>>
  /\ bpos = 0
  /\ since = [t \in Triggers |-> MinInterval]
  /\ batches = [t \in Triggers |-> 0]
  /\ fires = 0
  /\ dlog = NoLog
  /\ netKeys = {}
  /\ settled = {}
  /\ mngr = NoManager

\* NewNodeManager(...) is called and returns
NewNodeManager(okDeficit, okResync) ==
  /\ ~mngr.called
  /\ mngr' = NewNodeManagerReturns(okDeficit, okResync)
  /\ nodes' = EmptyNodeMap
  /\ UNCHANGED <<nextId, rwVars, nodeVars, procVars, sortVars, passVars,
                 trigVars, netKeys, settled>>

(* --------------------------- Update ------------------------------------ *)
\* Node objects an Update already under way may still allocate
Reserved == Cardinality({w \in Workers : pc[w] \in {"updLock", "updLocked"}})

\* Update(resource) is called: the worker enters n.mutex.Lock()
UpdateCall(w, nm, res) ==
  /\ pc[w] = "idle"
  /\ calls < MaxCalls
  /\ nextId + Reserved <= MaxNodes
  /\ pc' = [pc EXCEPT ![w] = "updLock"]
  /\ arg' = [arg EXCEPT ![w] = [name |-> nm, res |-> res]]
  /\ ret' = [ret EXCEPT ![w] = NoRet]
  /\ rwWaiting' = rwWaiting \cup {w}
  /\ calls' = calls + 1
  /\ UNCHANGED <<registryVars, rwWriter, rwReaders, nodeVars, cur, sortVars,
                 passVars, trigVars, histVars>>

\* n.mutex.Lock() returns
UpdateLock(w) ==
  /\ pc[w] = "updLock"
  /\ CanLock
  /\ rwWriter' = w
  /\ rwWaiting' = rwWaiting \ {w}
  /\ pc' = [pc EXCEPT ![w] = "updLocked"]
  /\ netKeys' = netKeys \cup {arg[w].name}
  /\ UNCHANGED <<registryVars, rwReaders, nodeVars, arg, cur, ret, calls,
                 sortVars, passVars, trigVars, settled, mngr>>

\* lookup, creation of the missing Node, n.mutex.Unlock()
UpdateInsert(w) ==
  /\ pc[w] = "updLocked"
  /\ rwWriter = w
  /\ LET nm == arg[w].name
         found == RegistryLookup(nodes, nm)
     IN IF found # None
        THEN /\ cur' = [cur EXCEPT ![w] = found]
             /\ UNCHANGED <<registryVars, nodeName, ret>>
        ELSE /\ nodeName' = [nodeName EXCEPT ![nextId] = nm]
             /\ nodes' = RegistryInsert(nodes, nodeName'[nextId], nextId)
             /\ nextId' = nextId + 1
             /\ cur' = [cur EXCEPT ![w] = nextId]
             /\ ret' = [ret EXCEPT ![w].created = TRUE, ![w].must = {nm}]
  /\ rwWriter' = Unlock(w)
  /\ pc' = [pc EXCEPT ![w] = "updatedResource"]
  /\ UNCHANGED <<rwReaders, rwWaiting, nodeMutex, nodeResource, stats,
                 resyncNeeded, arg, calls, sortVars, passVars, trigVars,
                 histVars>>

\* node.updatedResource: the node's mutex.Lock() returns
UpdatedResourceLock(w) ==
  /\ pc[w] = "updatedResource"
  /\ nodeMutex[cur[w]] = None
  /\ nodeMutex' = [nodeMutex EXCEPT ![cur[w]] = w]
  /\ pc' = [pc EXCEPT ![w] = "ingest"]
  /\ UNCHANGED <<registryVars, rwVars, nodeName, nodeResource, stats,
                 resyncNeeded, arg, cur, ret, calls, sortVars, passVars,
                 trigVars, histVars>>

\* whether merging the resource changes anything observable of the node
ResourceChanged(old, new) == old # new

\* node.updatedResource: merge, unlock, return; Update returns its result
UpdatedResource(w) ==
  /\ pc[w] = "ingest"
  /\ nodeMutex[cur[w]] = w
  /\ nodeResource' = [nodeResource EXCEPT ![cur[w]] = arg[w].res]
  /\ nodeMutex' = [nodeMutex EXCEPT ![cur[w]] = None]
  /\ ret' = [ret EXCEPT ![w].op = "Update",
                        ![w].names = {arg[w].name},
                        ![w].first = (nodeResource[cur[w]] = NoResource),
                        ![w].changed = ResourceChanged(nodeResource[cur[w]],
                                                       arg[w].res)]
  /\ settled' = settled \cup ret[w].must
  /\ pc' = [pc EXCEPT ![w] = "idle"]
  /\ arg' = [arg EXCEPT ![w] = NoArg]
  /\ cur' = [cur EXCEPT ![w] = None]
  /\ UNCHANGED <<registryVars, rwVars, nodeName, stats, resyncNeeded, calls,
                 sortVars, passVars, trigVars, netKeys, mngr>>

(* --------------------------- Delete ------------------------------------ *)
\* Delete(nodeName) is called: the worker enters n.mutex.Lock()
DeleteCall(w, nm) ==
  /\ pc[w] = "idle"
  /\ calls < MaxCalls
  /\ pc' = [pc EXCEPT ![w] = "delLock"]
  /\ arg' = [arg EXCEPT ![w] = [name |-> nm, res |-> NoResource]]
  /\ ret' = [ret EXCEPT ![w] = NoRet]
  /\ rwWaiting' = rwWaiting \cup {w}
  /\ calls' = calls + 1
  /\ UNCHANGED <<registryVars, rwWriter, rwReaders, nodeVars, cur, sortVars,
                 passVars, trigVars, histVars>>

\* n.mutex.Lock() returns
DeleteLock(w) ==
  /\ pc[w] = "delLock"
  /\ CanLock
  /\ rwWriter' = w
  /\ rwWaiting' = rwWaiting \ {w}
  /\ pc' = [pc EXCEPT ![w] = "delLocked"]
  /\ netKeys' = netKeys \ {arg[w].name}
  /\ settled' = settled \ {arg[w].name}
  /\ ret' = [r \in Procs |-> [ret[r] EXCEPT !.must = @ \ {arg[w].name}]]
  /\ UNCHANGED <<registryVars, rwReaders, nodeVars, arg, cur, calls,
                 sortVars, passVars, trigVars, mngr>>

\* delete(n.nodes, nodeName); n.mutex.Unlock()
DeleteRemove(w) ==
  /\ pc[w] = "delLocked"
  /\ rwWriter = w
  /\ nodes' = RegistryDelete(nodes, arg[w].name)
  /\ rwWriter' = Unlock(w)
  /\ pc' = [pc EXCEPT ![w] = "idle"]
  /\ ret' = [ret EXCEPT ![w].op = "Delete", ![w].names = {arg[w].name}]
  /\ arg' = [arg EXCEPT ![w] = NoArg]
  /\ UNCHANGED <<nextId, rwReaders, rwWaiting, nodeVars, cur, calls, sortVars,
                 passVars, trigVars, histVars>>

(* --------------------------- GetNames ---------------------------------- *)
\* GetNames is called and n.mutex.RLock() returns
GetNamesRLock(w) ==
  /\ pc[w] = "idle"
  /\ calls < MaxCalls
  /\ CanRLock
  /\ rwReaders' = rwReaders \cup {w}
  /\ pc' = [pc EXCEPT ![w] = "names"]
  /\ ret' = [ret EXCEPT ![w] = [NoRet EXCEPT !.must = settled]]
  /\ calls' = calls + 1
  /\ UNCHANGED <<registryVars, rwWriter, rwWaiting, nodeVars, arg, cur,
                 sortVars, passVars, trigVars, histVars>>

\* for name := range n.nodes { allNodeNames = append(allNodeNames, name) }
AllNodeNames(m) == Keys(m)

\* the loop over n.nodes, return, the deferred RUnlock
GetNamesReturn(w) ==
  /\ pc[w] = "names"
  /\ w \in rwReaders
  /\ ret' = [ret EXCEPT ![w].op = "GetNames", ![w].names = AllNodeNames(nodes)]
  /\ rwReaders' = RUnlock(rwReaders, w)
  /\ pc' = [pc EXCEPT ![w] = "idle"]
  /\ UNCHANGED <<registryVars, rwWriter, rwWaiting, nodeVars, arg, cur, calls,
                 sortVars, passVars, trigVars, histVars>>

(* ------------------ GetNodesByNeededAddresses -------------------------- *)
\* the orders in which a range over the map can fill the slice
Orders(S) == {q \in [1 .. Cardinality(S) -> S] :
                \A i, j \in 1 .. Cardinality(S) : i # j => q[i] # q[j]}

\* node.getNeededAddresses(): the count, read under the node's mutex
GetNeededAddresses(id) == stats[id].neededIPs

\* a less function that sorts in ascending order
LessAscending(left, right) == left < right
\* the less function given to sort.Slice, on the two counts read
Less(left, right) == left > right

\* data.Swap(j, j-1)
Swap(q, j) == [q EXCEPT ![j] = q[j - 1], ![j - 1] = q[j]]

\* the workers inside GetNodesByNeededAddresses
InGetNodes(w) == pc[w] \in {"sortLeft", "sortRight", "sorted"}

\* history: a changed needed-address count marks the calls under way
Disturbed(newStats) ==
  [w \in Procs |->
     IF InGetNodes(w)
     THEN stable[w] /\ \A id \in NodeIds :
                          newStats[id].neededIPs = stats[id].neededIPs
     ELSE stable[w]]

\* n.mutex.RLock() returns and the slice is filled from the map
GetNodesEnter(w) ==
  /\ \/ w \in Workers /\ pc[w] = "idle" /\ calls < MaxCalls
        /\ calls' = calls + 1
        /\ ret' = [ret EXCEPT ![w] = NoRet]
     \/ w = RS /\ pc[w] = "resync" /\ UNCHANGED <<calls, ret>>
  /\ CanRLock
  /\ rwReaders' = rwReaders \cup {w}
  /\ \E q \in Orders({nodes[nm] : nm \in Keys(nodes)}) :
       /\ list' = [list EXCEPT ![w] = q]
       /\ pc' = [pc EXCEPT ![w] = IF Len(q) >= 2 THEN "sortLeft" ELSE "sorted"]
  /\ si' = [si EXCEPT ![w] = 2]
  /\ sj' = [sj EXCEPT ![w] = 2]
  /\ stable' = [stable EXCEPT ![w] = TRUE]
  /\ UNCHANGED <<registryVars, rwWriter, rwWaiting, nodeVars, arg, cur, key,
                 passVars, trigVars, histVars>>

\* less(j, j-1): list[j].getNeededAddresses() is evaluated
SortReadLeft(w) ==
  /\ pc[w] = "sortLeft"
  /\ nodeMutex[list[w][sj[w]]] = None
  /\ key' = [key EXCEPT ![w] = GetNeededAddresses(list[w][sj[w]])]
  /\ pc' = [pc EXCEPT ![w] = "sortRight"]
  /\ UNCHANGED <<registryVars, rwVars, nodeVars, arg, cur, ret, calls, list,
                 si, sj, stable, passVars, trigVars, histVars>>

\* list[j-1].getNeededAddresses() is evaluated, then the swap and the loops
SortReadRight(w) ==
  /\ pc[w] = "sortRight"
  /\ nodeMutex[list[w][sj[w] - 1]] = None
  /\ LET moved == Less(key[w], GetNeededAddresses(list[w][sj[w] - 1]))
         inner == moved /\ sj[w] - 1 > 1
         i2 == IF inner THEN si[w] ELSE si[w] + 1
     IN /\ list' = [list EXCEPT ![w] = IF moved THEN Swap(@, sj[w]) ELSE @]
        /\ si' = [si EXCEPT ![w] = i2]
        /\ sj' = [sj EXCEPT ![w] = IF inner THEN @ - 1 ELSE i2]
        /\ pc' = [pc EXCEPT ![w] = IF i2 > Len(list[w]) THEN "sorted"
                                   ELSE "sortLeft"]
  /\ key' = [key EXCEPT ![w] = 0]
  /\ UNCHANGED <<registryVars, rwVars, nodeVars, arg, cur, ret, calls, stable,
                 passVars, trigVars, histVars>>

\* return list, the deferred n.mutex.RUnlock()
GetNodesReturn(w) ==
  /\ pc[w] = "sorted"
  /\ rwReaders' = RUnlock(rwReaders, w)
  /\ si' = [si EXCEPT ![w] = 0]
  /\ sj' = [sj EXCEPT ![w] = 0]
  /\ stable' = [stable EXCEPT ![w] = TRUE]
  /\ IF w = RS
     THEN /\ pc' = [pc EXCEPT ![w] = IF Len(list[w]) >= 1 THEN "nodeLock"
                                     ELSE "gauges"]
          /\ idx' = 1
          /\ totals' = ZeroTotals
          /\ UNCHANGED ret
     ELSE /\ pc' = [pc EXCEPT ![w] = "idle"]
          /\ ret' = [ret EXCEPT ![w].op = "GetNodes"]
          /\ UNCHANGED <<idx, totals>>
  /\ UNCHANGED <<registryVars, rwWriter, rwWaiting, nodeVars, arg, cur, calls,
                 list, key, gauges, pass, trigVars, histVars>>

(* ------------------------- the triggers -------------------------------- *)
\* Trigger.TriggerWithReason: the reason joins the folded reasons
TriggerWithReason(reasons, nm) == reasons \cup {nm}

\* a second passes
Tick ==
  /\ \E t \in Triggers : since[t] < MinInterval
  /\ since' = [t \in Triggers |-> IF since[t] < MinInterval THEN since[t] + 1
                                  ELSE since[t]]
  /\ UNCHANGED <<registryVars, rwVars, nodeVars, procVars, sortVars, passVars,
                 pending, resyncPending, batch, bpos, batches, fires, dlog,
                 histVars>>

\* some caller fires the deficit resolver for a name
FireDeficit(nm) ==
  /\ fires < MaxFires
  /\ fires' = fires + 1
  /\ pending' = TriggerWithReason(pending, nm)
  /\ dlog' = [dlog EXCEPT !.folding[nm] = @ + 1]
  /\ UNCHANGED <<registryVars, rwVars, nodeVars, procVars, sortVars, passVars,
                 resyncPending, batch, bpos, since, batches, histVars>>

\* some caller fires the resync trigger
FireResync ==
  /\ ~resyncPending
  /\ batches["resync"] < MaxBatches
  /\ resyncPending' = TRUE
  /\ UNCHANGED <<registryVars, rwVars, nodeVars, procVars, sortVars, passVars,
                 pending, batch, bpos, since, batches, fires, dlog, histVars>>

(* ----------------------------- Resync ---------------------------------- *)
\* a TriggerFunc that runs the pass without the refresh
ResyncBatchUnrefreshed ==
  /\ pc[RS] = "idle"
  /\ resyncPending
  /\ since["resync"] >= MinInterval
  /\ batches["resync"] < MaxBatches
  /\ resyncPending' = FALSE
  /\ since' = [since EXCEPT !["resync"] = 0]
  /\ batches' = [batches EXCEPT !["resync"] = @ + 1]
  /\ pc' = [pc EXCEPT ![RS] = "resync"]
  /\ pass' = NoPass
  /\ list' = [list EXCEPT ![RS] = <<>>]
  /\ UNCHANGED <<registryVars, rwVars, nodeVars, arg, cur, ret, calls, si, sj,
                 key, stable, idx, totals, gauges, pending, batch, bpos,
                 fires, dlog, histVars>>

\* the resync trigger calls its TriggerFunc
ResyncBatch ==
  /\ pc[RS] = "idle"
  /\ resyncPending
  /\ since["resync"] >= MinInterval
  /\ batches["resync"] < MaxBatches
  /\ resyncPending' = FALSE
  /\ since' = [since EXCEPT !["resync"] = 0]
  /\ batches' = [batches EXCEPT !["resync"] = @ + 1]
  /\ pc' = [pc EXCEPT ![RS] = "refresh"]
  /\ pass' = NoPass
  /\ list' = [list EXCEPT ![RS] = <<>>]
  /\ UNCHANGED <<registryVars, rwVars, nodeVars, arg, cur, ret, calls, si, sj,
                 key, stable, idx, totals, gauges, pending, batch, bpos,
                 fires, dlog, histVars>>

\* instancesAPI.Resync() returns; mngr.Resync() is entered
InstancesResync ==
  /\ pc[RS] = "refresh"
  /\ pass' = [pass EXCEPT !.refreshed = TRUE]
  /\ pc' = [pc EXCEPT ![RS] = "resync"]
  /\ UNCHANGED <<registryVars, rwVars, nodeVars, arg, cur, ret, calls,
                 sortVars, idx, totals, gauges, trigVars, histVars>>

\* node.mutex.Lock() of the next node of the range returns
ResyncNodeLock ==
  /\ pc[RS] = "nodeLock"
  /\ nodeMutex[list[RS][idx]] = None
  /\ nodeMutex' = [nodeMutex EXCEPT ![list[RS][idx]] = RS]
  /\ pc' = [pc EXCEPT ![RS] = "recalc"]
  /\ UNCHANGED <<registryVars, rwVars, nodeName, nodeResource, stats,
                 resyncNeeded, arg, cur, ret, calls, sortVars, passVars,
                 trigVars, histVars>>

\* what node.recalculateLocked() returns for the stats it computed
AllocationNeeded(st) == st.neededIPs > 0

\* availableOnNode := node.stats.availableIPs - node.stats.usedIPs
AvailableOnNode(st) == st.availableIPs - st.usedIPs

\* a test that counts a node with either of the two at zero
AtCapacityEither(st) == st.remainingInterfaces = 0 \/ AvailableOnNode(st) = 0
\* node.stats.remainingInterfaces == 0 && availableOnNode == 0
AtCapacity(st) == st.remainingInterfaces = 0 /\ AvailableOnNode(st) = 0

\* a test that enqueues every node in need, interfaces left or not
ShouldEnqueueNeeded(st) == AllocationNeeded(st)
\* allocationNeeded && node.stats.remainingInterfaces > 0
ShouldEnqueue(st) == AllocationNeeded(st) /\ st.remainingInterfaces > 0

\* running sums that count all addresses of a node as available
AccumulateProvisioned(t, st) ==
  [used |-> t.used + st.usedIPs,
   available |-> t.available + st.availableIPs,
   needed |-> t.needed + st.neededIPs,
   interfaces |-> t.interfaces + st.remainingInterfaces,
   atCapacity |-> IF AtCapacity(st) THEN t.atCapacity + 1 ELSE t.atCapacity]
\* the five running sums after one more node
Accumulate(t, st) ==
  [used |-> t.used + st.usedIPs,
   available |-> t.available + AvailableOnNode(st),
   needed |-> t.needed + st.neededIPs,
   interfaces |-> t.interfaces + st.remainingInterfaces,
   atCapacity |-> IF AtCapacity(st) THEN t.atCapacity + 1 ELSE t.atCapacity]

\* a body of the loop that keeps the node locked
NodeUnlockSkipped(m, id) == m
\* node.mutex.Unlock()
NodeUnlock(m, id) == [m EXCEPT ![id] = None]

\* the body of the loop under the lock of node id, whose recompute yields st
ResyncVisit(st, id) ==
  LET newStats == [stats EXCEPT ![id] = st]
      gone == IF RegistryLookup(nodes, nodeName[id]) = id THEN {} ELSE {id}
  IN /\ nodeMutex[id] = RS
     /\ resyncNeeded' = [resyncNeeded EXCEPT ![id] = FALSE]
     /\ stats' = newStats
     /\ stable' = Disturbed(newStats)
     /\ totals' = Accumulate(totals, st)
     /\ IF ShouldEnqueue(st)
        THEN /\ pending' = TriggerWithReason(pending, nodeName[id])
             /\ dlog' = [dlog EXCEPT !.folding[nodeName[id]] = @ + 1]
             /\ pass' = [pass EXCEPT !.visited = Append(@, id),
                                     !.stale = @ \cup gone,
                                     !.enqueued = @ \cup {id}]
        ELSE /\ UNCHANGED <<pending, dlog>>
             /\ pass' = [pass EXCEPT !.visited = Append(@, id),
                                     !.stale = @ \cup gone]
     /\ nodeMutex' = NodeUnlock(nodeMutex, id)

\* a pass that leaves out the nodes no longer registered under their name
ResyncRecalcRegistered(st) ==
  /\ pc[RS] = "recalc"
  /\ IF RegistryLookup(nodes, nodeName[list[RS][idx]]) = list[RS][idx]
     THEN ResyncVisit(st, list[RS][idx])
     ELSE /\ nodeMutex' = [nodeMutex EXCEPT ![list[RS][idx]] = None]
          /\ UNCHANGED <<resyncNeeded, stats, stable, totals, pending, dlog,
                         pass>>
  /\ pc' = [pc EXCEPT ![RS] = "sync"]
  /\ UNCHANGED <<registryVars, rwVars, nodeName, nodeResource, arg, cur, ret,
                 calls, list, si, sj, key, idx, gauges, resyncPending, batch,
                 bpos, since, batches, fires, histVars>>

\* the body of the loop from the recompute to node.mutex.Unlock()
ResyncRecalc(st) ==
  /\ pc[RS] = "recalc"
  /\ ResyncVisit(st, list[RS][idx])
  /\ pc' = [pc EXCEPT ![RS] = "sync"]
  /\ UNCHANGED <<registryVars, rwVars, nodeName, nodeResource, arg, cur, ret,
                 calls, list, si, sj, key, idx, gauges, resyncPending, batch,
                 bpos, since, batches, fires, histVars>>

\* a pass that stops at the first push that fails
AfterPushAbort(ok, i, n) == IF ok /\ i + 1 <= n THEN "nodeLock" ELSE "gauges"
\* where the range goes after the push of element i of n: no outcome ends it
AfterPush(ok, i, n) == IF i + 1 <= n THEN "nodeLock" ELSE "gauges"

\* a range that stays on the element it is at
NextIndexSame(i) == i
\* for _, node := range ...: the element after element i
NextIndex(i) == i + 1

\* node.SyncToAPIServer() returns, having succeeded or not
ResyncSync(ok) ==
  /\ pc[RS] = "sync"
  /\ LET id == list[RS][idx]
     IN pass' = [pass EXCEPT !.pushed = Append(@, id),
                             !.failed = @ \/ ~ok]
  /\ idx' = NextIndex(idx)
  /\ pc' = [pc EXCEPT ![RS] = AfterPush(ok, idx, Len(list[RS]))]
  /\ UNCHANGED <<registryVars, rwVars, nodeVars, arg, cur, ret, calls,
                 sortVars, totals, gauges, trigVars, histVars>>

\* the five metricsAPI.Set... calls; Resync and the TriggerFunc return
ResyncGauges ==
  /\ pc[RS] = "gauges"
  /\ gauges' = totals
  /\ pass' = [pass EXCEPT !.emits = @ + 1]
  /\ pc' = [pc EXCEPT ![RS] = "idle"]
  /\ UNCHANGED <<registryVars, rwVars, nodeVars, arg, cur, ret, calls,
                 sortVars, idx, totals, trigVars, histVars>>

(* ------------------- the deficit resolver's TriggerFunc ----------------- *)
\* the deficit resolver calls its TriggerFunc with the folded reasons
DeficitBatch ==
  /\ pc[DR] = "idle"
  /\ pending # {}
  /\ since["deficit"] >= MinInterval
  /\ batches["deficit"] < MaxBatches
  /\ \E q \in Orders(pending) : batch' = q
  /\ pending' = {}
  /\ bpos' = 1
  /\ since' = [since EXCEPT !["deficit"] = 0]
  /\ batches' = [batches EXCEPT !["deficit"] = @ + 1]
  /\ dlog' = [NoLog EXCEPT !.fired = dlog.folding]
  /\ pc' = [pc EXCEPT ![DR] = "get"]
  /\ UNCHANGED <<registryVars, rwVars, nodeVars, arg, cur, ret, calls,
                 sortVars, passVars, resyncPending, fires, histVars>>

\* mngr.Get(name): n.mutex.RLock() returns
HandlerGetRLock ==
  /\ pc[DR] = "get"
  /\ CanRLock
  /\ rwReaders' = rwReaders \cup {DR}
  /\ pc' = [pc EXCEPT ![DR] = "getLocked"]
  /\ UNCHANGED <<registryVars, rwWriter, rwWaiting, nodeVars, arg, cur, ret,
                 calls, sortVars, passVars, trigVars, histVars>>

\* a handler that leaves out the reason after the one it handled
NextReasonSkip(pos, ok) == pos + 2
\* a handler that tries a reason again when its resolve failed
NextReasonRetry(pos, ok) == IF ok THEN pos + 1 ELSE pos
\* for _, name := range reasons: the next reason, whatever the outcome
NextReason(pos, ok) == pos + 1

\* a handler that returns after the first reason of its batch
AfterReasonStop(pos) == "idle"
\* where the handler goes at position pos of the range
AfterReason(pos) == IF pos <= Len(batch) THEN "get" ELSE "idle"

\* mngr.Get(name): lookup and RUnlock; the warning if the node is gone
HandlerGet ==
  /\ pc[DR] = "getLocked"
  /\ LET nm == batch[bpos]
         node == RegistryLookup(nodes, nm)
     IN IF node # None
        THEN /\ cur' = [cur EXCEPT ![DR] = node]
             /\ pc' = [pc EXCEPT ![DR] = "resolveLock"]
             /\ UNCHANGED <<bpos, dlog>>
        ELSE /\ dlog' = [dlog EXCEPT !.warned = @ \cup {nm}]
             /\ bpos' = NextReason(bpos, TRUE)
             /\ pc' = [pc EXCEPT ![DR] = AfterReason(bpos')]
             /\ UNCHANGED cur
  /\ rwReaders' = RUnlock(rwReaders, DR)
  /\ UNCHANGED <<registryVars, rwWriter, rwWaiting, nodeVars, arg, ret, calls,
                 sortVars, passVars, pending, resyncPending, batch, since,
                 batches, fires, histVars>>

\* node.ResolveIPDeficit(): the node's mutex.Lock() returns
ResolveLock ==
  /\ pc[DR] = "resolveLock"
  /\ nodeMutex[cur[DR]] = None
  /\ nodeMutex' = [nodeMutex EXCEPT ![cur[DR]] = DR]
  /\ pc' = [pc EXCEPT ![DR] = "resolve"]
  /\ UNCHANGED <<registryVars, rwVars, nodeName, nodeResource, stats,
                 resyncNeeded, arg, cur, ret, calls, sortVars, passVars,
                 trigVars, histVars>>

\* node.ResolveIPDeficit() returns: the cloud calls succeeded, leaving the
\* node with stats st, or failed; the handler logs an error and goes on
ResolveIPDeficit(ok, st) ==
  /\ pc[DR] = "resolve"
  /\ LET id == cur[DR]
         nm == batch[bpos]
         newStats == IF ok THEN [stats EXCEPT ![id] = st] ELSE stats
     IN /\ nodeMutex[id] = DR
        /\ stats' = newStats
        /\ stable' = Disturbed(newStats)
        /\ nodeMutex' = [nodeMutex EXCEPT ![id] = None]
        /\ dlog' = [dlog EXCEPT !.resolved[nm] = @ + 1,
                                !.errors = IF ok THEN @ ELSE @ \cup {nm}]
  /\ bpos' = NextReason(bpos, ok)
  /\ cur' = [cur EXCEPT ![DR] = None]
  /\ pc' = [pc EXCEPT ![DR] = AfterReason(bpos')]
  /\ UNCHANGED <<registryVars, rwVars, nodeName, nodeResource, resyncNeeded,
                 arg, ret, calls, list, si, sj, key, passVars, pending,
                 resyncPending, batch, since, batches, fires, histVars>>

(* ---------------------- inputs of the environment ----------------------- *)
\* every stats record a recompute can leave on a node
StatsDomain ==
  {st \in [availableIPs : 0 .. MaxIPs, usedIPs : 0 .. MaxIPs,
           neededIPs : 0 .. MaxNeeded, remainingInterfaces : 0 .. MaxIfaces] :
      st.usedIPs <= st.availableIPs}

\* the stats of a node with all addresses in use and interfaces to spare
BusyStats == {st \in StatsDomain : st.availableIPs = MaxIPs
                /\ st.usedIPs = MaxIPs /\ st.remainingInterfaces = MaxIfaces}

\* the first n of the names a, b, c registered by earlier Updates and
\* visited by earlier passes, which left the nodes with stats of S and
\* resyncNeeded flags of F
FleetOfSize(n, S, F) ==
  /\ nodes = [nm \in Names |->
                LET id == CASE nm = "a" -> 1 [] nm = "b" -> 2 [] nm = "c" -> 3
                IN IF id <= n THEN id ELSE None]
  /\ nextId = n + 1
  /\ rwWriter = None
  /\ rwReaders = {}
  /\ rwWaiting = {}
  /\ nodeName = [id \in NodeIds |-> CASE id = 1 /\ id <= n -> "a"
                                      [] id = 2 /\ id <= n -> "b"
                                      [] id = 3 /\ id <= n -> "c"
                                      [] OTHER -> ""]
  /\ nodeMutex = [id \in NodeIds |-> None]
  /\ nodeResource = [id \in NodeIds |-> IF id <= n THEN "r1" ELSE NoResource]
  /\ \E f \in [1 .. n -> S] :
       stats = [id \in NodeIds |-> IF id <= n THEN f[id] ELSE ZeroStats]
  /\ \E g \in [1 .. n -> F] :
       resyncNeeded = [id \in NodeIds |-> IF id <= n THEN g[id] ELSE FALSE]
  /\ pc = [w \in Procs |-> "idle"]
  /\ arg = [w \in Procs |-> NoArg]
  /\ cur = [w \in Procs |-> None]
  /\ ret = [w \in Procs |-> NoRet]
  /\ calls = 0
  /\ list = [w \in Procs |-> <<>>]
  /\ si = [w \in Procs |-> 0]
  /\ sj = [w \in Procs |-> 0]
  /\ key = [w \in Procs |-> 0]
  /\ stable = [w \in Procs |-> TRUE]
  /\ idx = 0
  /\ totals = ZeroTotals
  /\ gauges = ZeroTotals
  /\ pass = NoPass
  /\ pending = {}
  /\ resyncPending = FALSE
  /\ batch = <<>>
  /\ bpos = 0
  /\ since = [t \in Triggers |-> MinInterval]
  /\ batches = [t \in Triggers |-> 0]
  /\ fires = 0
  /\ dlog = NoLog
  /\ netKeys = {nm \in Names : nodes[nm] # None}
  /\ settled = {nm \in Names : nodes[nm] # None}
  /\ mngr = NewNodeManagerReturns(TRUE, TRUE)

\* a fleet of the three names, left with stats of S
FleetOf(S) == FleetOfSize(3, S, {FALSE})

InitFleet == FleetOf(BusyStats)

\* a fleet whose nodes all need a different number of addresses
InitRanked == InitFleet /\ \A id \in 1 .. 3 : stats[id].neededIPs = id - 1

\* the stats of a busy node whose shortfall is closed
ServedStats == {st \in BusyStats : st.neededIPs = 0}

InitServed == FleetOf(ServedStats)

\* the nodes a and b
InitPair == FleetOfSize(2, ServedStats, {FALSE})

\* no node, or the nodes a and b, stale since the last refresh or not
InitGauges ==
  FleetOfSize(0, ServedStats, {FALSE}) \/ FleetOfSize(2, ServedStats, BOOLEAN)

\* the stats of a node that needs no address
SatisfiedStats == {st \in StatsDomain : st.neededIPs = 0}

(* ------------------------ specifications -------------------------------- *)
\* the event workers on the registry alone
NextRegistry ==
  \/ \E w \in Workers, nm \in Churn, res \in Resources : UpdateCall(w, nm, res)
  \/ \E w \in Workers : UpdateLock(w)
  \/ \E w \in Workers : UpdateInsert(w)
  \/ \E w \in Workers : UpdatedResourceLock(w)
  \/ \E w \in Workers : UpdatedResource(w)
  \/ \E w \in Workers, nm \in Churn : DeleteCall(w, nm)
  \/ \E w \in Workers : DeleteLock(w)
  \/ \E w \in Workers : DeleteRemove(w)
  \/ \E w \in Workers : GetNamesRLock(w)
  \/ \E w \in Workers : GetNamesReturn(w)

SpecRegistry == Init /\ [][NextRegistry]_vars

\* event workers that only call Update
NextUpdates ==
  \/ \E w \in Workers, nm \in Churn, res \in Resources : UpdateCall(w, nm, res)
  \/ \E w \in Workers : UpdateLock(w)
  \/ \E w \in Workers : UpdateInsert(w)
  \/ \E w \in Workers : UpdatedResourceLock(w)
  \/ \E w \in Workers : UpdatedResource(w)

SpecUpdates == Init /\ [][NextUpdates]_vars

\* construction, then the event workers on the manager it returned
NextNew ==
  \/ \E okDeficit, okResync \in BOOLEAN : NewNodeManager(okDeficit, okResync)
  \/ mngr.manager /\ NextRegistry

SpecNew == InitNew /\ [][NextNew]_vars

\* one event worker beside the resync pass and the deficit resolver, each
\* trigger within its first interval, every push and cloud call succeeding
Next ==
  \/ \E w \in Ingest, nm \in Churn : UpdateCall(w, nm, "r1")
  \/ \E w \in Ingest : UpdateLock(w)
  \/ \E w \in Ingest : UpdateInsert(w)
  \/ \E w \in Ingest : UpdatedResourceLock(w)
  \/ \E w \in Ingest : UpdatedResource(w)
  \/ \E w \in Ingest, nm \in Churn : DeleteCall(w, nm)
  \/ \E w \in Ingest : DeleteLock(w)
  \/ \E w \in Ingest : DeleteRemove(w)
  \/ GetNodesEnter(RS)
  \/ SortReadLeft(RS)
  \/ SortReadRight(RS)
  \/ GetNodesReturn(RS)
  \/ \E nm \in Churn : fires < MaxStrayFires /\ FireDeficit(nm)
  \/ FireResync
  \/ ResyncBatch
  \/ InstancesResync
  \/ ResyncNodeLock
  \/ \E st \in BusyStats : ResyncRecalc(st)
  \/ ResyncSync(TRUE)
  \/ ResyncGauges
  \/ DeficitBatch
  \/ HandlerGetRLock
  \/ HandlerGet
  \/ ResolveLock
  \/ \E st \in BusyStats : ResolveIPDeficit(TRUE, st)

Spec == Init /\ [][Next]_vars

\* the nodes a and b registered: an event worker updating, deleting and
\* listing beside the resync pass and the deficit resolver, all three on
\* node a; recomputes and cloud calls leave the stats as they are
NextLocks ==
  \/ \E w \in Ingest, nm \in Contended : UpdateCall(w, nm, "r1")
  \/ \E w \in Ingest : UpdateLock(w)
  \/ \E w \in Ingest : UpdateInsert(w)
  \/ \E w \in Ingest : UpdatedResourceLock(w)
  \/ \E w \in Ingest : UpdatedResource(w)
  \/ \E w \in Ingest, nm \in Contended : DeleteCall(w, nm)
  \/ \E w \in Ingest : DeleteLock(w)
  \/ \E w \in Ingest : DeleteRemove(w)
  \/ \E w \in Ingest : GetNamesRLock(w)
  \/ \E w \in Ingest : GetNamesReturn(w)
  \/ GetNodesEnter(RS)
  \/ SortReadLeft(RS)
  \/ SortReadRight(RS)
  \/ GetNodesReturn(RS)
  \/ \E nm \in Contended : fires < MaxStrayFires /\ FireDeficit(nm)
  \/ FireResync
  \/ ResyncBatch
  \/ InstancesResync
  \/ ResyncNodeLock
  \/ pc[RS] = "recalc" /\ ResyncRecalc(stats[list[RS][idx]])
  \/ ResyncSync(TRUE)
  \/ ResyncGauges
  \/ DeficitBatch
  \/ HandlerGetRLock
  \/ HandlerGet
  \/ ResolveLock
  \/ pc[DR] = "resolve" /\ ResolveIPDeficit(TRUE, stats[cur[DR]])

SpecLocks == InitPair /\ [][NextLocks]_vars

\* the nodes a and b registered: one resync pass enqueues nodes on the
\* deficit resolver, whose batches run a minimum interval apart, while an
\* event worker deletes node a while it is registered; every goroutine that can take a step
\* eventually takes it, and the clock advances
NextLive ==
  \/ \E w \in Ingest, nm \in Contended : nodes[nm] # None /\ DeleteCall(w, nm)
  \/ \E w \in Ingest : DeleteLock(w)
  \/ \E w \in Ingest : DeleteRemove(w)
  \/ GetNodesEnter(RS)
  \/ SortReadLeft(RS)
  \/ SortReadRight(RS)
  \/ GetNodesReturn(RS)
  \/ batches["resync"] = 0 /\ FireResync
  \/ ResyncBatch
  \/ InstancesResync
  \/ ResyncNodeLock
  \/ \E st \in BusyStats : ResyncRecalc(st)
  \/ ResyncSync(TRUE)
  \/ ResyncGauges
  \/ Tick
  \/ DeficitBatch
  \/ HandlerGetRLock
  \/ HandlerGet
  \/ ResolveLock
  \/ \E ok \in BOOLEAN, st \in ServedStats : ResolveIPDeficit(ok, st)

\* the steps of the goroutines once they are inside an operation or a batch
\* is due
Running ==
  \/ \E w \in Ingest : DeleteLock(w) \/ DeleteRemove(w)
  \/ GetNodesEnter(RS) \/ SortReadLeft(RS) \/ SortReadRight(RS)
  \/ GetNodesReturn(RS)
  \/ ResyncBatch \/ InstancesResync \/ ResyncNodeLock
  \/ \E st \in BusyStats : ResyncRecalc(st)
  \/ ResyncSync(TRUE) \/ ResyncGauges

\* the steps of the deficit resolver's goroutine
Resolving ==
  \/ DeficitBatch \/ HandlerGetRLock \/ HandlerGet \/ ResolveLock
  \/ \E ok \in BOOLEAN, st \in ServedStats : ResolveIPDeficit(ok, st)

SpecLive ==
  /\ InitPair
  /\ [][NextLive]_vars
  /\ WF_vars(Tick)
  /\ WF_vars(Running)
  /\ WF_vars(Resolving)

\* one event worker beside the resync pass, pushes failing or not
NextPass ==
  \/ \E w \in Ingest, nm \in Churn : UpdateCall(w, nm, "r1")
  \/ \E w \in Ingest : UpdateLock(w)
  \/ \E w \in Ingest : UpdateInsert(w)
  \/ \E w \in Ingest : UpdatedResourceLock(w)
  \/ \E w \in Ingest : UpdatedResource(w)
  \/ \E w \in Ingest, nm \in Churn : DeleteCall(w, nm)
  \/ \E w \in Ingest : DeleteLock(w)
  \/ \E w \in Ingest : DeleteRemove(w)
  \/ GetNodesEnter(RS)
  \/ SortReadLeft(RS)
  \/ SortReadRight(RS)
  \/ GetNodesReturn(RS)
  \/ FireResync
  \/ ResyncBatch
  \/ InstancesResync
  \/ ResyncNodeLock
  \/ \E st \in BusyStats : ResyncRecalc(st)
  \/ \E ok \in BOOLEAN : ResyncSync(ok)
  \/ ResyncGauges

SpecPass == Init /\ [][NextPass]_vars

\* a registered fleet: a resync pass whose recomputes find the stats as
\* they are, beside the deficit resolver, whose cloud calls change the
\* nodes' needed-address counts
NextFleet ==
  \/ GetNodesEnter(RS)
  \/ SortReadLeft(RS)
  \/ SortReadRight(RS)
  \/ GetNodesReturn(RS)
  \/ FireResync
  \/ ResyncBatch
  \/ InstancesResync
  \/ ResyncNodeLock
  \/ pc[RS] = "recalc" /\ ResyncRecalc(stats[list[RS][idx]])
  \/ ResyncSync(TRUE)
  \/ ResyncGauges
  \/ \E nm \in Names : FireDeficit(nm)
  \/ DeficitBatch
  \/ HandlerGetRLock
  \/ HandlerGet
  \/ ResolveLock
  \/ \E st \in BusyStats : ResolveIPDeficit(TRUE, st)

SpecFleet == InitRanked /\ [][NextFleet]_vars

\* a registered fleet: one resync pass over the stats a recompute can yield
\* for a node without shortfall
NextStats ==
  \/ GetNodesEnter(RS)
  \/ SortReadLeft(RS)
  \/ SortReadRight(RS)
  \/ GetNodesReturn(RS)
  \/ FireResync
  \/ ResyncBatch
  \/ InstancesResync
  \/ ResyncNodeLock
  \/ \E st \in SatisfiedStats : ResyncRecalc(st)
  \/ \E ok \in BOOLEAN : ResyncSync(ok)
  \/ ResyncGauges

SpecStats == InitServed /\ [][NextStats]_vars

\* no node or two: one resync pass over every stats record a recompute can
\* yield, pushes failing or not
NextGauges ==
  \/ GetNodesEnter(RS)
  \/ SortReadLeft(RS)
  \/ SortReadRight(RS)
  \/ GetNodesReturn(RS)
  \/ FireResync
  \/ ResyncBatch
  \/ InstancesResync
  \/ ResyncNodeLock
  \/ \E st \in StatsDomain : ResyncRecalc(st)
  \/ \E ok \in BOOLEAN : ResyncSync(ok)
  \/ ResyncGauges

SpecGauges == InitGauges /\ [][NextGauges]_vars

\* a registered fleet: callers firing the deficit resolver, its batches a
\* minimum interval apart, and an event worker deleting nodes
NextTrigger ==
  \/ \E nm \in Names : FireDeficit(nm)
  \/ Tick
  \/ DeficitBatch
  \/ HandlerGetRLock
  \/ HandlerGet
  \/ ResolveLock
  \/ \E ok \in BOOLEAN, st \in ServedStats : ResolveIPDeficit(ok, st)
  \/ \E w \in Ingest, nm \in Churn : DeleteCall(w, nm)
  \/ \E w \in Ingest : DeleteLock(w)
  \/ \E w \in Ingest : DeleteRemove(w)

SpecTrigger == InitServed /\ [][NextTrigger]_vars

(* ============================ claims ==================================== *)
Quiescent == \A w \in Procs : pc[w] = "idle"

\* C1: once every Update and Delete call has returned, the key set of the
\* registry map is the set obtained by applying the calls in the order in
\* which they took the registry lock, Update adding its name and Delete
\* removing it.
C1_NetEffect == Quiescent => Keys(nodes) = netKeys

\* C1 witness: a Delete and an Update of the same name by two workers have
\* both returned, the Update having taken the lock last.
C1_Witness ==
  /\ Quiescent
  /\ \E w, v \in Workers :
       /\ ret[w].op = "Delete" /\ ret[v].op = "Update"
       /\ ret[w].names = ret[v].names
       /\ ret[v].names \subseteq Keys(nodes)
       /\ Keys(nodes) # Names

\* the worker holds the registry lock, for reading or for writing
HoldsRegistry(w) == rwWriter = w \/ w \in rwReaders

\* the worker holds the lock of some node
HoldsNode(w) == \E id \in NodeIds : nodeMutex[id] = w

\* the worker is inside a call that takes the lock of node id
TakesNode(w, id) ==
  \/ pc[w] = "sortLeft" /\ id = list[w][sj[w]]
  \/ pc[w] = "sortRight" /\ id = list[w][sj[w] - 1]
  \/ pc[w] = "updatedResource" /\ id = cur[w]
  \/ pc[w] = "resolveLock" /\ id = cur[w]
  \/ w = RS /\ pc[w] = "nodeLock" /\ id = list[w][idx]

\* C2 as stated: no worker takes or holds the lock of a node while it holds
\* the registry lock; GetNodesByNeededAddresses reads the counts it sorts by
\* only after it released the read lock.
C2_AsStated ==
  \A w \in Procs :
    (HoldsNode(w) \/ \E id \in NodeIds : TakesNode(w, id)) => ~HoldsRegistry(w)

\* the deficit resolver's batch is over
BatchDone == pc[DR] = "idle" /\ batches["deficit"] >= 1

\* the range of a sequence
Range(q) == {q[i] : i \in 1 .. Len(q)}

\* the sequence is in non-increasing order of the nodes' current counts
SortedByNeeded(q) ==
  \A i, j \in 1 .. Len(q) :
    i < j => stats[q[i]].neededIPs >= stats[q[j]].neededIPs

\* the sequence holds every node of the registry exactly once
EveryNodeOnce(q) ==
  /\ Range(q) = {nodes[nm] : nm \in Keys(nodes)}
  /\ Len(q) = Cardinality(Keys(nodes))

\* C3 as stated: what GetNodesByNeededAddresses returns holds every node of
\* the registry once and is in non-increasing order of the current counts,
\* also when other workers change counts during the call.
C3_AsStated ==
  \A w \in Procs :
    pc[w] = "sorted" => (EveryNodeOnce(list[w]) /\ SortedByNeeded(list[w]))

\* C3 amended: what GetNodesByNeededAddresses returns holds every node of the
\* registry once, and is in non-increasing order of the counts when no count
\* changed during the call.
C3_SortedWhenStable ==
  \A w \in Procs :
    pc[w] = "sorted" =>
      /\ EveryNodeOnce(list[w])
      /\ stable[w] => SortedByNeeded(list[w])

\* C3 witness: after a batch of the deficit resolver changed counts, a call
\* is about to return three nodes of three different counts, none of which
\* changed during the call.
C3_Witness ==
  /\ pc[RS] = "sorted" /\ stable[RS] /\ BatchDone
  /\ \E nm \in Names : dlog.resolved[nm] = 1
  /\ Cardinality({stats[id].neededIPs : id \in Range(list[RS])}) = 3

\* C4: a name fired into the deficit resolver one or more times before the
\* batch starts is resolved exactly once by that batch when its node is still
\* registered; a name not fired is not resolved.
C4_OncePerBatch ==
  BatchDone =>
    \A nm \in Names :
      /\ (dlog.fired[nm] >= 1 /\ nm \notin dlog.warned) => dlog.resolved[nm] = 1
      /\ dlog.fired[nm] = 0 => dlog.resolved[nm] = 0

\* C4 witness: a name fired twice was resolved once, the cloud call failing.
C4_Witness ==
  /\ BatchDone
  /\ \E nm \in Names :
       dlog.fired[nm] = 2 /\ dlog.resolved[nm] = 1 /\ nm \in dlog.errors

\* the resync pass is over
PassDone == pc[RS] = "idle" /\ pass.emits >= 1

C6_AtCapacityCount ==
  PassDone =>
    gauges.atCapacity =
      Cardinality({id \in Range(list[RS]) :
                     /\ stats[id].remainingInterfaces = 0
                     /\ stats[id].availableIPs - stats[id].usedIPs = 0})

\* C6 witness: of three visited nodes one is at capacity, one has only its
\* interfaces exhausted and one has only its addresses exhausted.
C6_Witness ==
  /\ PassDone /\ gauges.atCapacity = 1 /\ Len(list[RS]) = 3
  /\ \E id \in Range(list[RS]) :
       stats[id].remainingInterfaces = 0 /\ AvailableOnNode(stats[id]) > 0
  /\ \E id \in Range(list[RS]) :
       stats[id].remainingInterfaces > 0 /\ AvailableOnNode(stats[id]) = 0

\* C7: no worker is inside ResolveIPDeficit or SyncToAPIServer while it
\* holds the registry lock.
C7_BlockingOutsideRegistry ==
  \A w \in Procs :
    pc[w] \in {"resolveLock", "resolve", "sync"} => ~HoldsRegistry(w)

\* C7 witness: the cloud call of the deficit resolver and the status push of
\* the pass are under way together.
C7_Witness == pc[DR] = "resolve" /\ pc[RS] = "sync"

\* C8 as stated: an Update waiting for the registry lock is never kept from
\* it by a worker that holds the registry lock and waits for the lock of a
\* node of another name.
C8_AsStated ==
  \A w \in Workers :
    pc[w] = "updLock" =>
      ~ \E v \in Procs, id \in NodeIds :
          /\ HoldsRegistry(v)
          /\ TakesNode(v, id)
          /\ nodeMutex[id] # None
          /\ nodeName[id] # arg[w].name

\* C9 as stated: an Update that found no entry creates and inserts a Node of
\* that name and returns true, and a GetNames call started after it returned
\* includes the name unless a Delete of it has been called.
C9_AsStated ==
  \A w \in Workers :
    /\ (pc[w] = "idle" /\ ret[w].op = "Update" /\ ret[w].created)
         => ret[w].changed
    /\ (pc[w] \in {"updatedResource", "ingest"} /\ arg[w].name \in ret[w].must)
         => (nodes[arg[w].name] = cur[w] /\ nodeName[cur[w]] = arg[w].name)
    /\ (pc[w] = "idle" /\ ret[w].op = "GetNames")
         => ret[w].must \subseteq ret[w].names


\* C9 amended: an Update that found no entry creates and inserts a Node of
\* that name, returns true when its resource is the first the node ingests,
\* and a GetNames call started after it returned includes the name unless a
\* Delete of it took the registry lock.
C9_CreatedAndListed ==
  \A w \in Workers :
    /\ (pc[w] = "idle" /\ ret[w].op = "Update" /\ ret[w].created /\ ret[w].first)
         => ret[w].changed
    /\ (pc[w] \in {"updatedResource", "ingest"} /\ arg[w].name \in ret[w].must)
         => (nodes[arg[w].name] = cur[w] /\ nodeName[cur[w]] = arg[w].name)
    /\ (pc[w] = "idle" /\ ret[w].op = "GetNames")
         => ret[w].must \subseteq ret[w].names

\* C9 witness: an Update that created its node has returned true and a
\* GetNames call started later has returned the name.
C9_Witness ==
  \E w, v \in Workers :
    /\ pc[w] = "idle" /\ ret[w].op = "Update" /\ ret[w].created
    /\ ret[w].changed
    /\ pc[v] = "idle" /\ ret[v].op = "GetNames"
    /\ ret[w].names \subseteq ret[v].must
    /\ ret[v].must \subseteq ret[v].names

\* C10: a pass visits and pushes every node of its snapshot once, in the
\* snapshot's order, and emits the gauges once, after the last node, whether
\* pushes failed or not.
C10_PassCompletes ==
  /\ PassDone => /\ pass.visited = list[RS]
                 /\ pass.pushed = list[RS]
                 /\ pass.emits = 1
  /\ pc[RS] \in {"nodeLock", "recalc", "sync", "gauges"} => pass.emits = 0

\* C10 witness: a pass over two nodes is over, a push having failed.
C10_Witness == PassDone /\ pass.failed /\ Len(list[RS]) = 2

\* C11: the deficit resolver's handler handles every name of its batch once:
\* a name with no entry in the registry at its lookup gets the warning and no
\* resolve, a name with an entry gets one ResolveIPDeficit on the node found
\* under it, and neither a failed resolve nor a missing node keeps the
\* handler from the names after it.
C11_EveryNameHandled ==
  /\ \A nm \in Names : nm \in dlog.warned => dlog.resolved[nm] = 0
  /\ pc[DR] \in {"resolveLock", "resolve"} =>
       (cur[DR] # None /\ nodeName[cur[DR]] = batch[bpos])
  /\ BatchDone =>
       \A nm \in Names :
         IF nm \in Range(batch)
         THEN (nm \in dlog.warned) # (dlog.resolved[nm] = 1)
         ELSE nm \notin dlog.warned /\ dlog.resolved[nm] = 0

\* C11 witness: a batch of two names is over: the node of the first was gone
\* and the resolve of the second failed.
C11_Witness ==
  /\ BatchDone /\ Len(batch) = 2
  /\ batch[1] \in dlog.warned
  /\ batch[2] \in dlog.errors /\ dlog.resolved[batch[2]] = 1

\* C12: NewNodeManager returns a manager exactly when both triggers were
\* made; otherwise it returns nil and an error; the manager returned has both
\* trigger fields set and, until a worker calls it, an empty registry; no
\* worker runs on a manager that was not returned.
C12_ManagerOnlyWithTriggers ==
  mngr.called =>
    /\ mngr.manager <=> mngr.made = Triggers
    /\ ~mngr.manager => (mngr.err # "" /\ calls = 0 /\ Quiescent
                           /\ Keys(nodes) = {})
    /\ mngr.manager => /\ mngr.err = ""
                       /\ mngr.deficitResolver /\ mngr.resyncTrigger
                       /\ calls = 0 => Keys(nodes) = {}

\* C12 witness: the deficit resolver was made, the resync trigger was not,
\* and NewNodeManager returned nil and the error.
C12_Witness ==
  /\ mngr.called /\ ~mngr.manager /\ mngr.made = {"deficit"}
  /\ mngr.err = "unable to initialize resync trigger"

\* C13: a pass enqueues on the deficit resolver exactly the nodes it visited
\* whose recompute left a need of addresses and a remaining interface; a
\* node in need with no interface left, or not in need, is not enqueued.
C13_EnqueuedIffNeededAndInterfaces ==
  /\ pass.enqueued =
       {id \in Range(pass.visited) :
          stats[id].neededIPs > 0 /\ stats[id].remainingInterfaces > 0}
  /\ pending = {nodeName[id] : id \in pass.enqueued}

\* C13 witness: of the two nodes of a finished pass, both in need, the one
\* with an interface left was enqueued and the other was not.
C13_Witness ==
  /\ PassDone /\ Len(list[RS]) = 2 /\ Cardinality(pending) = 1
  /\ \A id \in Range(list[RS]) : stats[id].neededIPs > 0
  /\ \E id \in Range(list[RS]) : stats[id].remainingInterfaces = 0

\* the sum of f[q[i]] over the positions of the sequence
RECURSIVE SumOver(_, _)
SumOver(q, f) == IF q = <<>> THEN 0 ELSE f[Head(q)] + SumOver(Tail(q), f)

\* C16: the gauges a pass emits are the sums, over the nodes it visited, of
\* usedIPs, of availableIPs - usedIPs, of neededIPs and of
\* remainingInterfaces; nothing is emitted before the last node was visited;
\* a pass over an empty registry emits zeros.
C16_GaugesAreSums ==
  /\ PassDone =>
       /\ gauges.used = SumOver(list[RS], [id \in NodeIds |-> stats[id].usedIPs])
       /\ gauges.available =
            SumOver(list[RS], [id \in NodeIds |->
                                 stats[id].availableIPs - stats[id].usedIPs])
       /\ gauges.needed =
            SumOver(list[RS], [id \in NodeIds |-> stats[id].neededIPs])
       /\ gauges.interfaces =
            SumOver(list[RS], [id \in NodeIds |-> stats[id].remainingInterfaces])
       /\ list[RS] = <<>> => gauges = ZeroTotals
  /\ pc[RS] \in {"nodeLock", "recalc", "sync", "gauges"} =>
       (pass.emits = 0 /\ gauges = ZeroTotals)

\* C16 witness: a pass over two nodes emitted sums to which both added: one
\* node has an address in use and the other a spare one.
C16_Witness ==
  /\ PassDone /\ Len(list[RS]) = 2
  /\ gauges.used = 1 /\ gauges.available = 1
  /\ gauges.needed = 2 /\ gauges.interfaces = 2
  /\ \A id \in Range(list[RS]) : stats[id].neededIPs = 1

\* the resync goroutine is between the pass's first and last statement
InPass == pc[RS] \in {"resync", "sortLeft", "sortRight", "sorted", "nodeLock",
                      "recalc", "sync", "gauges"}

\* the sequence p is the start of the sequence q
IsPrefix(p, q) == Len(p) <= Len(q) /\ p = SubSeq(q, 1, Len(p))

\* C14: the pass pushes a node after it released the node's lock and before
\* it takes the lock of the next node; it holds no node lock while a push is
\* under way and never more than one node lock.
C14_PushOutsideNodeLock ==
  /\ pc[RS] = "sync" =>
       /\ ~HoldsNode(RS)
       /\ pass.visited = Append(pass.pushed, list[RS][idx])
  /\ pc[RS] \in {"nodeLock", "recalc", "gauges"} => pass.visited = pass.pushed
  /\ pc[RS] = "recalc" => nodeMutex[list[RS][idx]] = RS
  /\ Cardinality({id \in NodeIds : nodeMutex[id] = RS}) <= 1

\* C14 witness: while the pass pushes the first of two nodes, an Update has
\* that node's lock.
C14_Witness ==
  /\ pc[RS] = "sync" /\ Len(list[RS]) = 2 /\ idx = 1
  /\ \E w \in Ingest : pc[w] = "ingest" /\ nodeMutex[list[RS][idx]] = w

\* C15: the pass visits the nodes of the snapshot taken at its start, in the
\* snapshot's order and each once, whatever counts change and whatever
\* nodes are added meanwhile.
C15_VisitsInSnapshotOrder ==
  (InPass \/ PassDone) =>
    /\ IsPrefix(pass.visited, list[RS])
    /\ \A i, j \in 1 .. Len(pass.visited) :
         i # j => pass.visited[i] # pass.visited[j]
    /\ PassDone => pass.visited = list[RS]

\* C15 witness: a pass over one node is over; a second node was registered
\* during the pass, after the snapshot, and the pass did not visit it.
C15_Witness ==
  /\ PassDone /\ Len(pass.visited) = 1
  /\ Cardinality(Keys(nodes)) = 2
  /\ nodes[nodeName[pass.visited[1]]] = pass.visited[1]

\* C17: the resync trigger's handler starts the pass only after the refresh
\* of the instance data returned, and every node the pass visited has
\* resyncNeeded false.
C17_RefreshBeforePass ==
  /\ (InPass \/ PassDone) => pass.refreshed
  /\ pc[RS] = "refresh" => (~pass.refreshed /\ pass.visited = <<>>)
  /\ \A id \in Range(pass.visited) : ~resyncNeeded[id]

\* C17 witness: after the refresh the pass has visited the first of two
\* nodes, whose flag is false, and not yet the second, which is still stale.
C17_Witness ==
  /\ pc[RS] = "nodeLock" /\ idx = 2 /\ pass.refreshed
  /\ ~resyncNeeded[list[RS][1]] /\ resyncNeeded[list[RS][2]]

\* the Node objects allocated so far
Allocated == 1 .. (nextId - 1)

\* C18: when workers call Update concurrently, one Node object is created
\* per name, every Update delivers its resource to the Node registered under
\* its name, and a Node is stored under its own name.
C18_OneNodePerName ==
  /\ \A i, j \in Allocated : nodeName[i] = nodeName[j] => i = j
  /\ \A w \in Workers :
       pc[w] \in {"updatedResource", "ingest"} =>
         (cur[w] # None /\ cur[w] = nodes[arg[w].name]
            /\ nodeName[cur[w]] = arg[w].name)
  /\ \A nm \in Names : nodes[nm] # None => nodeName[nodes[nm]] = nm
  /\ \A id \in Allocated : nodes[nodeName[id]] = id

\* C18 witness: two Updates of one name are past the registry lock with the
\* same Node, which the first created and the second found.
C18_Witness ==
  \E w, v \in Workers :
    /\ pc[w] = "ingest" /\ pc[v] = "updatedResource"
    /\ arg[w].name = arg[v].name /\ arg[w].res # arg[v].res
    /\ cur[w] = cur[v]
    /\ ret[w].created /\ ~ret[v].created

\* the worker waits for a lock that another worker holds or, for a read
\* lock, that a writer waits for
Blocked(w) ==
  \/ pc[w] \in {"updLock", "delLock"} /\ ~CanLock
  \/ pc[w] \in {"resync", "get"} /\ ~CanRLock
  \/ \E id \in NodeIds : TakesNode(w, id) /\ nodeMutex[id] # None

\* C19: whenever workers are inside operations, one of them is not waiting
\* for a lock, so no set of workers waits on each other for ever; a worker
\* outside every operation holds no lock and waits for none.
C19_DeadlockFree ==
  /\ (\E w \in Procs : pc[w] # "idle") =>
       \E w \in Procs : pc[w] # "idle" /\ ~Blocked(w)
  /\ \A w \in Procs :
       pc[w] = "idle" =>
         (~HoldsRegistry(w) /\ ~HoldsNode(w) /\ w \notin rwWaiting)

\* C19 witness: the pass holds the read lock and waits for the lock of a
\* node that the deficit resolver holds, and an Update waits for the write
\* lock; the deficit resolver can go on.
C19_Witness ==
  /\ RS \in rwReaders /\ Blocked(RS)
  /\ pc[DR] = "resolve"
  /\ \E w \in Ingest : pc[w] = "updLock" /\ Blocked(w)

\* the batch under way or last run handled the name: it called
\* ResolveIPDeficit on the node registered under it or logged that the node
\* has disappeared
Handled(nm) ==
  nm \in Range(batch) /\ (dlog.resolved[nm] >= 1 \/ nm \in dlog.warned)

\* C20: under fair scheduling, a name that the pass enqueued on the deficit
\* resolver, pending there, is eventually handled by a batch: resolved, or
\* warned about when the name is no longer in the registry.
C20_EnqueuedEventuallyHandled ==
  \A nm \in Names : (nm \in pending) ~> Handled(nm)

\* C20 witness: the pass enqueued two nodes; the batches resolved one and
\* logged the disappearance of the other, deleted meanwhile.
C20_Witness ==
  /\ BatchDone /\ PassDone /\ Cardinality(pass.enqueued) = 2
  /\ pending = {}
  /\ \E id \in pass.enqueued : nodeName[id] \in dlog.warned
  /\ \E id \in pass.enqueued : dlog.resolved[nodeName[id]] = 1

====
